---- MODULE Spec2Model ----
(***************************************************************************)
(* Model of the library catalog store of allahkma.py: class                *)
(* LibraryDatabase (three SQLite tables books, borrowers, loans and the    *)
(* methods add_book, register_borrower, loan_book, return_book,            *)
(* get_overdue_loans) and the Add Book view of main().                     *)
(*                                                                         *)
(* Three specifications share the operations: Spec (catalog, registration  *)
(* and lending on one calendar day), SpecLend (adding, lending and         *)
(* returning books on one day, with more loans) and SpecDue (the calendar  *)
(* day advances, so loans become overdue).                                 *)
(*                                                                         *)
(* A table is a sequence of rows; rows are never deleted, so the row at    *)
(* position i is the row whose AUTOINCREMENT id is i.  TEXT values are     *)
(* strings, dates are the text produced by strftime("%Y-%m-%d"), kept as   *)
(* the sequence of its ten character codes so that SQLite's text           *)
(* comparison can be computed on it.                                       *)
(***************************************************************************)
EXTENDS Integers, Sequences, FiniteSets, TLC

VARIABLES books, borrowers, loans, today, lastOp, pending, overlapped

vars == <<books, borrowers, loans, today, lastOp, pending, overlapped>>

----------------------------------------------------------------------------
(* Bounds of the model *)

\* caps on the table sizes when every operation runs on one calendar day
MaxBooks == 2
MaxBorrowers == 2
MaxLoans == 1

\* caps on the table sizes when only books are added, lent and returned
MaxLendBooks == 2
MaxLendLoans == 3

\* caps on the table sizes and on the clock when the calendar day advances
MaxDueBooks == 1
MaxDueLoans == 1
MaxDays == 2
MaxSearchBooks == 2
MaxBorrowBooks == 2
MaxBorrowLoans == 2
MaxUiBooks == 2
MaxUiBorrowers == 2
MaxUiLoans == 2
MaxRaceBooks == 2
MaxRaceLoans == 3

(* Inputs *)

\* 2023-12-30 as days since 1970-01-01: the window crosses a month and a year
StartDay == 19721

\* SQL NULL / Python None in a TEXT column
NULL == "<NULL>"

\* SQL NULL in a date column (strftime never yields the empty text)
NoDate == <<>>

Titles == {"Dune", NULL}
Authors == {"Herbert"}
Isbns == {"ISBN1", "", NULL}
Genres == {"SciFi"}
Years == {1965}

\* <<name, email>> of the registrations tried: Ana, then Bob with Ana's email
\* or with no email
Registrations ==
    {<<"Ana", "ana@x.com">>, <<"Bob", "ana@x.com">>, <<"Bob", NULL>>}

\* the default of loan_book's loan_period_days
DefaultPeriod == 14

\* loan periods tried within one day, and over several days
Periods == {7, DefaultPeriod}
DuePeriods == {1}

\* text the Add Book form can hold (a blank field is the empty string)
FormTitles == {"Dune", ""}
FormIsbns == {"ISBN1", ""}

\* the connections of two runs of main(), each with its own LibraryDatabase
Connections == {1, 2}

\* the Name and Email fields of the Register Borrower form
FormRegistrations ==
    {<<"Ana", "ana@x.com">>, <<"Bob", "bob@x.com">>, <<"Ana", "ann@x.com">>,
     <<"", "ana@x.com">>}

\* borrower ids passed to loan_book: that of the first borrower registered and
\* one that is never registered
BorrowerIds == {1, 2}

\* what the searched catalogue holds and what is searched for
SearchTitles == {"Ab", "a_"}
SearchIsbns == {"ISBN1", NULL}
SearchGenres == {"SciFi", NULL}
Queries == {"a", "AB", "_", "%", "b_", "", "erb", "SCI"}
SearchBys == {"title", "author", "isbn", "genre", "publication_year"}

----------------------------------------------------------------------------
(* Calendar: datetime arithmetic, strftime("%Y-%m-%d") and strptime *)

\* proleptic Gregorian date <<y, m, d>> of a day number (days since 1970-01-01)
CivilFromDays(z) ==
    LET zz == z + 719468
        era == zz \div 146097
        doe == zz - era * 146097
        yoe == (doe - (doe \div 1460) + (doe \div 36524) - (doe \div 146096)) \div 365
        doy == doe - (365 * yoe + (yoe \div 4) - (yoe \div 100))
        mp == (5 * doy + 2) \div 153
        d == doy - ((153 * mp + 2) \div 5) + 1
        m == IF mp < 10 THEN mp + 3 ELSE mp - 9
        y == yoe + era * 400 + (IF m <= 2 THEN 1 ELSE 0)
    IN <<y, m, d>>

\* day number of the date y-m-d
DaysFromCivil(y, m, d) ==
    LET yy == IF m <= 2 THEN y - 1 ELSE y
        era == yy \div 400
        yoe == yy - era * 400
        mp == IF m > 2 THEN m - 3 ELSE m + 9
        doy == ((153 * mp + 2) \div 5) + d - 1
        doe == yoe * 365 + (yoe \div 4) - (yoe \div 100) + doy
    IN era * 146097 + doe - 719468

\* character code of a decimal digit
Digit(n) == 48 + n

\* value of a digit character
DigitVal(c) == c - 48

\* strftime("%Y-%m-%d"): the ten characters YYYY-MM-DD, zero padded
Strftime(day) ==
    LET c == CivilFromDays(day)
        y == c[1]
        m == c[2]
        d == c[3]
    IN <<Digit((y \div 1000) % 10), Digit((y \div 100) % 10),
         Digit((y \div 10) % 10), Digit(y % 10), 45,
         Digit(m \div 10), Digit(m % 10), 45,
         Digit(d \div 10), Digit(d % 10)>>

\* strptime(text, "%Y-%m-%d") as a day number
Strptime(s) ==
    DaysFromCivil(DigitVal(s[1]) * 1000 + DigitVal(s[2]) * 100
                    + DigitVal(s[3]) * 10 + DigitVal(s[4]),
                  DigitVal(s[6]) * 10 + DigitVal(s[7]),
                  DigitVal(s[9]) * 10 + DigitVal(s[10]))

\* SQLite "a < b" on two TEXT values (BINARY collation: bytewise, then length)
RECURSIVE TextLess(_, _)
TextLess(a, b) ==
    IF b = <<>> THEN FALSE
    ELSE IF a = <<>> THEN TRUE
    ELSE IF Head(a) # Head(b) THEN Head(a) < Head(b)
    ELSE TextLess(Tail(a), Tail(b))

\* Python truthiness of a str-or-None value
Truthy(s) == s # "" /\ s # NULL

----------------------------------------------------------------------------
(* Table constraints and SQL statements *)

\* books.isbn declared without UNIQUE
IsbnConflictOff(isbn) == FALSE

\* UNIQUE on books.isbn: an INSERT conflicts when a row holds the same non-NULL isbn
IsbnConflict(isbn) ==
    isbn # NULL /\ \E i \in 1..Len(books) : books[i].isbn = isbn

\* borrowers.email declared without UNIQUE
EmailConflictOff(email) == FALSE

\* UNIQUE on borrowers.email
EmailConflict(email) ==
    email # NULL /\ \E i \in 1..Len(borrowers) : borrowers[i].email = email

\* the availability test reduced to the existence of the book
SelectStatusAnyBook(book_id) ==
    IF book_id \in 1..Len(books) THEN <<"available">> ELSE <<>>

\* SELECT status FROM books WHERE id = ?  (fetchone: a row or None)
SelectStatus(book_id) ==
    IF book_id \in 1..Len(books) THEN <<books[book_id].status>> ELSE <<>>

\* a missing loan row read as a row naming the book with the same id
SelectLoanBookOrId(loan_id) ==
    IF loan_id \in 1..Len(loans) THEN <<loans[loan_id].book_id>> ELSE <<loan_id>>

\* SELECT book_id FROM loans WHERE id = ?  (fetchone: a row or None)
SelectLoanBook(loan_id) ==
    IF loan_id \in 1..Len(loans) THEN <<loans[loan_id].book_id>> ELSE <<>>

\* the UPDATE of books without its WHERE clause
UpdateBookStatusAllRows(tbl, book_id, status) ==
    [i \in 1..Len(tbl) |-> [tbl[i] EXCEPT !.status = status]]

\* UPDATE books SET status = ? WHERE id = ?
UpdateBookStatus(tbl, book_id, status) ==
    [i \in 1..Len(tbl) |->
        IF i = book_id THEN [tbl[i] EXCEPT !.status = status] ELSE tbl[i]]

\* the UPDATE of loans left out
UpdateReturnDateSkipped(tbl, loan_id, return_date) == tbl

\* UPDATE loans SET return_date = ? WHERE id = ?
UpdateReturnDate(tbl, loan_id, return_date) ==
    [i \in 1..Len(tbl) |->
        IF i = loan_id THEN [tbl[i] EXCEPT !.return_date = return_date] ELSE tbl[i]]

\* the row INSERTed by add_book
BookRow(title, author, isbn, year, genre) ==
    [title |-> title, author |-> author, isbn |-> isbn,
     publication_year |-> year, genre |-> genre,
     added_date |-> Strftime(today), status |-> "available"]

\* the row INSERTed by register_borrower
BorrowerRow(name, email, phone) ==
    [name |-> name, email |-> email, phone |-> phone,
     registration_date |-> Strftime(today)]

\* the due date computed without the loan period
LoanRowNoPeriod(book_id, borrower_id, loan_period_days) ==
    [book_id |-> book_id, borrower_id |-> borrower_id,
     loan_date |-> Strftime(today),
     due_date |-> Strftime(today),
     return_date |-> NoDate]

\* the row INSERTed by loan_book (return_date is left NULL)
LoanRow(book_id, borrower_id, loan_period_days) ==
    [book_id |-> book_id, borrower_id |-> borrower_id,
     loan_date |-> Strftime(today),
     due_date |-> Strftime(today + loan_period_days),
     return_date |-> NoDate]

\* the characters of a text value, as ASCII codes
Text(s) ==
    CASE s = "" -> <<>>
      [] s = "a" -> <<97>>
      [] s = "_" -> <<95>>
      [] s = "%" -> <<37>>
      [] s = "Ab" -> <<65, 98>>
      [] s = "a_" -> <<97, 95>>
      [] s = "AB" -> <<65, 66>>
      [] s = "b_" -> <<98, 95>>
      [] s = "erb" -> <<101, 114, 98>>
      [] s = "SCI" -> <<83, 67, 73>>
      [] s = "SciFi" -> <<83, 99, 105, 70, 105>>
      [] s = "ISBN1" -> <<73, 83, 66, 78, 49>>
      [] s = "Herbert" -> <<72, 101, 114, 98, 101, 114, 116>>

\* LIKE folds the case of ASCII letters
Lower(c) == IF c \in 65..90 THEN c + 32 ELSE c

\* SQLite's LIKE without ESCAPE: in pattern p, % stands for any run of
\* characters and _ for any one character
RECURSIVE Like(_, _)
Like(p, t) ==
    IF p = <<>> THEN t = <<>>
    ELSE IF Head(p) = 37
         THEN Like(Tail(p), t) \/ (t # <<>> /\ Like(p, Tail(t)))
         ELSE /\ t # <<>>
              /\ Head(p) = 95 \/ Lower(Head(p)) = Lower(Head(t))
              /\ Like(Tail(p), Tail(t))

\* the column of a books row that search_by names
FieldValue(row, search_by) ==
    CASE search_by = "title" -> row.title
      [] search_by = "author" -> row.author
      [] search_by = "isbn" -> row.isbn
      [] search_by = "genre" -> row.genre

\* SELECT * FROM books WHERE <search_by> LIKE ?, over the first n rows of
\* table bk in rowid order, each row given by its id; a NULL column matches
\* no pattern
RECURSIVE SelectLike(_, _, _, _)
SelectLike(bk, search_by, search_query, n) ==
    IF n = 0 THEN <<>>
    ELSE LET rest == SelectLike(bk, search_by, search_query, n - 1)
             v == FieldValue(bk[n], search_by)
         IN IF v # NULL /\ Like(search_query, Text(v))
            THEN Append(rest, n)
            ELSE rest

\* the value a dict comprehension keeps for a key: that of the last row
Last(ids) == CHOOSE i \in ids : \A j \in ids : j <= i

\* SELECT id, title FROM books WHERE status = 'available', as ids
AvailableBooks == {b \in 1..Len(books) : books[b].status = "available"}

\* book_options: title -> id
BookOptions ==
    [t \in {books[b].title : b \in AvailableBooks} |->
        Last({b \in AvailableBooks : books[b].title = t})]

\* borrower_options: name -> id
BorrowerOptions ==
    [n \in {borrowers[r].name : r \in 1..Len(borrowers)} |->
        Last({r \in 1..Len(borrowers) : borrowers[r].name = n})]

\* the Return Book view's SELECT without its WHERE clause
JoinedLoans ==
    {l \in 1..Len(loans) :
        /\ loans[l].book_id \in 1..Len(books)
        /\ loans[l].borrower_id \in 1..Len(borrowers)}

\* SELECT loans.id, ... FROM loans JOIN books JOIN borrowers
\* WHERE loans.return_date IS NULL, as loan ids
ActiveLoans ==
    {l \in 1..Len(loans) :
        /\ loans[l].book_id \in 1..Len(books)
        /\ loans[l].borrower_id \in 1..Len(borrowers)
        /\ loans[l].return_date = NoDate}

\* the text "<title> (borrowed by <name>, due <due_date>)" of a loan, by its
\* three parts
LoanLabel(l) ==
    <<books[loans[l].book_id].title, borrowers[loans[l].borrower_id].name,
      loans[l].due_date>>

\* loan_options: label -> loan id
LoanOptions ==
    [k \in {LoanLabel(l) : l \in ActiveLoans} |->
        Last({l \in ActiveLoans : LoanLabel(l) = k})]

\* SELECT COUNT(*) FROM loans WHERE return_date IS NULL, on table ln
ActiveLoanCount(ln) ==
    Cardinality({l \in 1..Len(ln) : ln[l].return_date = NoDate})

\* the SELECT of get_overdue_loans over the first n loans of table ln, with
\* tables bk and br and the text day for today: the inner joins drop a loan
\* whose book row or borrower row does not exist
RECURSIVE OverdueRows(_, _, _, _, _)
OverdueRows(bk, br, ln, day, n) ==
    IF n = 0 THEN <<>>
    ELSE LET l == ln[n]
             rest == OverdueRows(bk, br, ln, day, n - 1)
         IN IF /\ l.book_id \in 1..Len(bk)
               /\ l.borrower_id \in 1..Len(br)
               /\ TextLess(l.due_date, day)
               /\ l.return_date = NoDate
            THEN Append(rest, <<n, bk[l.book_id].title,
                                br[l.borrower_id].name, l.due_date>>)
            ELSE rest

----------------------------------------------------------------------------
(* Operations of LibraryDatabase *)

\* what the last call was and gave back: the method, its text or id argument,
\* its return value ("True", "False", "rows" for a result list, "counts" for
\* the dashboard, "warning" or "info" for a view that called nothing) and the
\* rows of a result list
Outcome(op, text, id, ret, rows) ==
    [op |-> op, text |-> text, id |-> id, ret |-> ret, rows |-> rows]

Init ==
    /\ books = <<>>
    /\ borrowers = <<>>
    /\ loans = <<>>
    /\ today = StartDay
    /\ lastOp = Outcome("init", "", 0, "True", <<>>)
    /\ pending = [c \in Connections |-> <<>>]
    /\ overlapped = {}

\* the body of add_book; view tells which caller issued it.  The INSERT
\* raises IntegrityError on a NULL title or author (NOT NULL) and on a
\* duplicate isbn (UNIQUE); a failed INSERT changes no row and takes no id
add_book_from(view, title, author, isbn, year, genre) ==
    IF title = NULL \/ author = NULL \/ IsbnConflict(isbn)
    THEN \* sqlite3.IntegrityError
         /\ lastOp' = Outcome(view, isbn, 0, "False", <<>>)
         /\ UNCHANGED <<books, borrowers, loans, today, pending, overlapped>>
    ELSE /\ books' = Append(books, BookRow(title, author, isbn, year, genre))
         /\ lastOp' = Outcome(view, isbn, 0, "True", <<>>)
         /\ UNCHANGED <<borrowers, loans, today, pending, overlapped>>

add_book(title, author, isbn, year, genre) ==
    add_book_from("add_book", title, author, isbn, year, genre)

\* the INSERT raises IntegrityError on a NULL name and on a duplicate email
register_borrower(name, email, phone) ==
    IF name = NULL \/ EmailConflict(email)
    THEN /\ lastOp' = Outcome("register_borrower", email, 0, "False", <<>>)
         /\ UNCHANGED <<books, borrowers, loans, today, pending, overlapped>>
    ELSE /\ borrowers' = Append(borrowers, BorrowerRow(name, email, phone))
         /\ lastOp' = Outcome("register_borrower", email, 0, "True", <<>>)
         /\ UNCHANGED <<books, loans, today, pending, overlapped>>

\* the first statements of loan_book without the test of the status read
LoanCheckAnyStatus(c, book_id, borrower_id, loan_period_days) ==
    /\ pending[c] = <<>>
    /\ IF SelectStatus(book_id) = <<>>
       THEN /\ lastOp' = Outcome("loan_book", "", book_id, "False", <<>>)
            /\ UNCHANGED <<books, borrowers, loans, today, pending, overlapped>>
       ELSE /\ pending' = [pending EXCEPT
                               ![c] = <<book_id, borrower_id, loan_period_days>>]
            /\ overlapped' =
                  IF \E d \in Connections \ {c} :
                        pending[d] # <<>> /\ pending[d][1] = book_id
                  THEN overlapped \cup {book_id}
                  ELSE overlapped
            /\ UNCHANGED <<books, borrowers, loans, today, lastOp>>

\* loan_book on connection c up to its check: the SELECT of the status and
\* the early return.  pending[c] holds the arguments of a call that passed
\* the check and has not written yet (<<>> when there is none); overlapped
\* holds the books for which some call passed the check while a call of
\* another connection was pending for the same book.
LoanCheck(c, book_id, borrower_id, loan_period_days) ==
    /\ pending[c] = <<>>
    /\ LET result == SelectStatus(book_id)
       IN IF result = <<>> \/ result[1] # "available"
          THEN /\ lastOp' = Outcome("loan_book", "", book_id, "False", <<>>)
               /\ UNCHANGED <<books, borrowers, loans, today, pending, overlapped>>
          ELSE /\ pending' = [pending EXCEPT
                                  ![c] = <<book_id, borrower_id, loan_period_days>>]
               /\ overlapped' =
                     IF \E d \in Connections \ {c} :
                           pending[d] # <<>> /\ pending[d][1] = book_id
                     THEN overlapped \cup {book_id}
                     ELSE overlapped
               /\ UNCHANGED <<books, borrowers, loans, today, lastOp>>

\* the rest of loan_book on connection c: UPDATE, INSERT and commit, one
\* transaction
LoanWrite(c) ==
    /\ pending[c] # <<>>
    /\ books' = UpdateBookStatus(books, pending[c][1], "loaned")
    /\ loans' = Append(loans, LoanRow(pending[c][1], pending[c][2], pending[c][3]))
    /\ lastOp' = Outcome("loan_book", "", pending[c][1], "True", <<>>)
    /\ pending' = [pending EXCEPT ![c] = <<>>]
    /\ UNCHANGED <<borrowers, today, overlapped>>

\* loan_book with a lookup of the borrower added to its check
loan_book_registered_only(book_id, borrower_id, loan_period_days) ==
    LET result == SelectStatus(book_id)
    IN IF \/ result = <<>>
          \/ result[1] # "available"
          \/ borrower_id \notin 1..Len(borrowers)
       THEN /\ lastOp' = Outcome("loan_book", "", book_id, "False", <<>>)
            /\ UNCHANGED <<books, borrowers, loans, today, pending, overlapped>>
       ELSE /\ books' = UpdateBookStatus(books, book_id, "loaned")
            /\ loans' = Append(loans, LoanRow(book_id, borrower_id, loan_period_days))
            /\ lastOp' = Outcome("loan_book", "", book_id, "True", <<>>)
            /\ UNCHANGED <<borrowers, today, pending, overlapped>>

\* borrower_id is not looked up, and SQLite does not enforce the FOREIGN KEY
\* clauses of loans unless PRAGMA foreign_keys is set, which it never is
loan_book(book_id, borrower_id, loan_period_days) ==
    LET result == SelectStatus(book_id)
    IN IF result = <<>> \/ result[1] # "available"
       THEN /\ lastOp' = Outcome("loan_book", "", book_id, "False", <<>>)
            /\ UNCHANGED <<books, borrowers, loans, today, pending, overlapped>>
       ELSE /\ books' = UpdateBookStatus(books, book_id, "loaned")
            /\ loans' = Append(loans, LoanRow(book_id, borrower_id, loan_period_days))
            /\ lastOp' = Outcome("loan_book", "", book_id, "True", <<>>)
            /\ UNCHANGED <<borrowers, today, pending, overlapped>>

\* return_book without its UPDATE of books
return_book_keeps_status(loan_id) ==
    LET result == SelectLoanBook(loan_id)
    IN IF result = <<>>
       THEN /\ lastOp' = Outcome("return_book", "", loan_id, "False", <<>>)
            /\ UNCHANGED <<books, borrowers, loans, today, pending, overlapped>>
       ELSE /\ loans' = UpdateReturnDate(loans, loan_id, Strftime(today))
            /\ lastOp' = Outcome("return_book", "", loan_id, "True", <<>>)
            /\ UNCHANGED <<books, borrowers, today, pending, overlapped>>

\* the loan's return_date is not read: a returned loan is returned again
return_book(loan_id) ==
    LET result == SelectLoanBook(loan_id)
    IN IF result = <<>>
       THEN /\ lastOp' = Outcome("return_book", "", loan_id, "False", <<>>)
            /\ UNCHANGED <<books, borrowers, loans, today, pending, overlapped>>
       ELSE /\ loans' = UpdateReturnDate(loans, loan_id, Strftime(today))
            /\ books' = UpdateBookStatus(books, result[1], "available")
            /\ lastOp' = Outcome("return_book", "", loan_id, "True", <<>>)
            /\ UNCHANGED <<borrowers, today, pending, overlapped>>

get_overdue_loans ==
    /\ lastOp' = Outcome("get_overdue_loans", "", 0, "rows",
                         OverdueRows(books, borrowers, loans,
                                     Strftime(today), Len(loans)))
    /\ UNCHANGED <<books, borrowers, loans, today, pending, overlapped>>

\* the Add Book view: the button handler with the text of the form fields
AddBookView(title, author, isbn, year, genre) ==
    IF Truthy(title) /\ Truthy(author)
    THEN add_book_from("AddBookView", title, author, isbn, year, genre)
    ELSE /\ lastOp' = Outcome("AddBookView", isbn, 0, "warning", <<>>)
         /\ UNCHANGED <<books, borrowers, loans, today, pending, overlapped>>

\* the Register Borrower view: the button handler with the form fields
RegisterBorrowerView(name, email, phone) ==
    IF Truthy(name) /\ Truthy(email)
    THEN register_borrower(name, email, phone)
    ELSE /\ lastOp' = Outcome("RegisterBorrowerView", email, 0, "warning", <<>>)
         /\ UNCHANGED <<books, borrowers, loans, today, pending, overlapped>>

\* the Loan Book view: the button handler with the values of the two select
\* boxes and of the slider
LoanBookView(selected_book, selected_borrower, loan_days) ==
    IF /\ DOMAIN BookOptions # {}
       /\ DOMAIN BorrowerOptions # {}
       /\ selected_book \in DOMAIN BookOptions
       /\ selected_borrower \in DOMAIN BorrowerOptions
    THEN loan_book(BookOptions[selected_book],
                   BorrowerOptions[selected_borrower], loan_days)
    ELSE /\ lastOp' = Outcome("LoanBookView", "", 0, "warning", <<>>)
         /\ UNCHANGED <<books, borrowers, loans, today, pending, overlapped>>

\* the Return Book view with the value of its select box: without an active
\* loan it shows no button
ReturnBookView(selected_loan) ==
    IF ActiveLoans # {}
    THEN /\ selected_loan \in DOMAIN LoanOptions
         /\ return_book(LoanOptions[selected_loan])
    ELSE /\ lastOp' = Outcome("ReturnBookView", "", 0, "info", <<>>)
         /\ UNCHANGED <<books, borrowers, loans, today, pending, overlapped>>

search_books(query, search_by) ==
    LET search_query == <<37>> \o Text(query) \o <<37>>
    IN /\ lastOp' = Outcome("search_books", query, 0, "rows",
                            IF search_by \in {"title", "author", "isbn", "genre"}
                            THEN SelectLike(books, search_by, search_query,
                                            Len(books))
                            ELSE <<>>)
       /\ UNCHANGED <<books, borrowers, loans, today, pending, overlapped>>

\* the Home view: the three counts of the dashboard
HomeView ==
    /\ lastOp' = Outcome("HomeView", "", 0, "counts",
                         <<Len(books), Len(borrowers), ActiveLoanCount(loans)>>)
    /\ UNCHANGED <<books, borrowers, loans, today, pending, overlapped>>

\* datetime.now() moves on to the next calendar day
Tick ==
    /\ today' = today + 1
    /\ UNCHANGED <<books, borrowers, loans, lastOp, pending, overlapped>>

----------------------------------------------------------------------------
(* The store used within one calendar day *)

AddBookStep ==
    \E t \in Titles, a \in Authors, i \in Isbns, y \in Years, g \in Genres :
        add_book(t, a, i, y, g) /\ Len(books') <= MaxBooks

AddBookViewStep ==
    \E t \in FormTitles, a \in Authors, i \in FormIsbns, y \in Years, g \in Genres :
        AddBookView(t, a, i, y, g) /\ Len(books') <= MaxBooks

RegisterStep ==
    \E r \in Registrations :
        register_borrower(r[1], r[2], NULL) /\ Len(borrowers') <= MaxBorrowers

LoanStep ==
    \E b \in 1..(MaxBooks + 1), r \in {1} :
        loan_book(b, r, DefaultPeriod) /\ Len(loans') <= MaxLoans

ReturnStep == \E l \in 1..(MaxLoans + 1) : return_book(l)

Next ==
    \/ AddBookStep
    \/ AddBookViewStep
    \/ RegisterStep
    \/ LoanStep
    \/ ReturnStep

Spec == Init /\ [][Next]_vars

----------------------------------------------------------------------------
(* Lending and returning within one calendar day *)

LendAddStep ==
    add_book("Dune", "Herbert", NULL, 1965, "SciFi") /\ Len(books') <= MaxLendBooks

LendLoanStep ==
    \E b \in 1..(MaxLendBooks + 1), r \in {1}, p \in Periods :
        loan_book(b, r, p) /\ Len(loans') <= MaxLendLoans

LendReturnStep == \E l \in 1..(MaxLendLoans + 1) : return_book(l)

LendHomeStep == HomeView

NextLend ==
    \/ LendAddStep
    \/ LendLoanStep
    \/ LendReturnStep
    \/ LendHomeStep

SpecLend == Init /\ [][NextLend]_vars

----------------------------------------------------------------------------
(* The store over several calendar days *)

AddPlainBookStep ==
    add_book("Dune", "Herbert", NULL, 1965, "SciFi") /\ Len(books') <= MaxDueBooks

RegisterAnaStep == register_borrower("Ana", "ana@x.com", NULL)

LoanDueStep ==
    \E b \in 1..(MaxDueBooks + 1), r \in {1}, p \in DuePeriods :
        loan_book(b, r, p) /\ Len(loans') <= MaxDueLoans

ReturnDueStep == \E l \in 1..(MaxDueLoans + 1) : return_book(l)

OverdueStep == get_overdue_loans

TickStep == Tick /\ today' <= StartDay + MaxDays

NextDue ==
    \/ AddPlainBookStep
    \/ RegisterAnaStep
    \/ LoanDueStep
    \/ ReturnDueStep
    \/ OverdueStep
    \/ TickStep

SpecDue == Init /\ [][NextDue]_vars

----------------------------------------------------------------------------
(* Searching the catalogue *)

SearchAddStep ==
    \E t \in SearchTitles, i \in SearchIsbns, g \in SearchGenres :
        add_book(t, "Herbert", i, 1965, g) /\ Len(books') <= MaxSearchBooks

SearchStep == \E q \in Queries, f \in SearchBys : search_books(q, f)

NextSearch ==
    \/ SearchAddStep
    \/ SearchStep

SpecSearch == Init /\ [][NextSearch]_vars

----------------------------------------------------------------------------
(* Lending to registered and unregistered borrowers *)

BorrowAddStep ==
    add_book("Dune", "Herbert", NULL, 1965, "SciFi") /\ Len(books') <= MaxBorrowBooks

BorrowRegisterStep == register_borrower("Ana", "ana@x.com", NULL)

BorrowLoanStep ==
    \E b \in 1..(MaxBorrowBooks + 1), r \in BorrowerIds :
        loan_book(b, r, DefaultPeriod) /\ Len(loans') <= MaxBorrowLoans

BorrowReturnStep == \E l \in 1..(MaxBorrowLoans + 1) : return_book(l)

NextBorrow ==
    \/ BorrowAddStep
    \/ BorrowRegisterStep
    \/ BorrowLoanStep
    \/ BorrowReturnStep

SpecBorrow == Init /\ [][NextBorrow]_vars

----------------------------------------------------------------------------
(* One session working through the views *)

UiAddStep ==
    \E t \in FormTitles, i \in FormIsbns :
        AddBookView(t, "Herbert", i, 1965, "SciFi") /\ Len(books') <= MaxUiBooks

UiRegisterStep ==
    \E r \in FormRegistrations :
        RegisterBorrowerView(r[1], r[2], "") /\ Len(borrowers') <= MaxUiBorrowers

\* a select box gives one of its options, or its placeholder when it has none
UiLoanStep ==
    \E selected_book \in IF DOMAIN BookOptions # {}
                          THEN DOMAIN BookOptions
                          ELSE {"No books available"},
       selected_borrower \in IF DOMAIN BorrowerOptions # {}
                              THEN DOMAIN BorrowerOptions
                              ELSE {"No borrowers registered"} :
        /\ LoanBookView(selected_book, selected_borrower, DefaultPeriod)
        /\ Len(loans') <= MaxUiLoans

UiReturnStep ==
    \E selected_loan \in IF ActiveLoans # {}
                          THEN DOMAIN LoanOptions
                          ELSE {<<>>} :
        ReturnBookView(selected_loan)

NextUi ==
    \/ UiAddStep
    \/ UiRegisterStep
    \/ UiLoanStep
    \/ UiReturnStep

SpecUi == Init /\ [][NextUi]_vars

----------------------------------------------------------------------------
(* Two connections lending at the same time *)

RaceAddStep ==
    add_book("Dune", "Herbert", NULL, 1965, "SciFi") /\ Len(books') <= MaxRaceBooks

RaceCheckStep ==
    \E c \in Connections, b \in 1..(MaxRaceBooks + 1), r \in Connections :
        LoanCheck(c, b, r, DefaultPeriod)

RaceWriteStep ==
    \E c \in Connections : LoanWrite(c) /\ Len(loans') <= MaxRaceLoans

NextRace ==
    \/ RaceAddStep
    \/ RaceCheckStep
    \/ RaceWriteStep

SpecRace == Init /\ [][NextRace]_vars

----------------------------------------------------------------------------
(* Properties *)

\* ids of the loans of book b whose return date is absent
OpenLoans(b) ==
    {l \in 1..Len(loans) : loans[l].book_id = b /\ loans[l].return_date = NoDate}

\* ids of the loans get_overdue_loans lists on day d with tables bk, br, ln
OverdueIds(bk, br, ln, d) ==
    LET rows == OverdueRows(bk, br, ln, Strftime(d), Len(ln))
    IN {rows[k][1] : k \in 1..Len(rows)}

\* the callers of add_book
AddBookCallers == {"add_book", "AddBookView"}

\* C1: after every sequence of store operations, a book's status is loaned
\* if and only if a loan with return date absent references it.
C1_StatusIffOpenLoan ==
    \A b \in 1..Len(books) :
        books[b].status = "loaned" <=> OpenLoans(b) # {}

\* C2: in every reachable state each book has at most one loan with return
\* date absent.
C2_AtMostOneOpenLoan ==
    \A b \in 1..Len(books) : Cardinality(OpenLoans(b)) <= 1

\* C3: loan_book on a book id that does not exist, or on a book whose status
\* is loaned, returns False and leaves books, borrowers and loans unchanged.
C3_FailedLoanChangesNothing ==
    [][\A b \in 1..(MaxLendBooks + 1), r \in {1}, p \in Periods :
          (/\ (b \notin 1..Len(books) \/ books[b].status = "loaned")
           /\ loan_book(b, r, p))
          => (/\ lastOp'.ret = "False"
              /\ books' = books
              /\ borrowers' = borrowers
              /\ loans' = loans)]_vars

\* a loan_book call has just failed on an existing book that is loaned
C3_Witness ==
    /\ lastOp.op = "loan_book"
    /\ lastOp.ret = "False"
    /\ lastOp.id \in 1..Len(books)
    /\ books[lastOp.id].status = "loaned"
    /\ OpenLoans(lastOp.id) # {}

\* C4: a successful loan_book(b, r, p) on day `today` appends exactly one
\* loan row (book b, borrower r, loan date today, due date today + p, no
\* return date), sets the status of book b to loaned and changes no other
\* book, borrower or loan; in every step a loan row is added exactly when
\* some book goes from available to loaned.
C4_LoanEffect ==
    [][/\ \A b \in 1..(MaxLendBooks + 1), r \in {1}, p \in Periods :
            (loan_book(b, r, p) /\ lastOp'.ret = "True")
            => (/\ Len(loans') = Len(loans) + 1
                /\ \A i \in 1..Len(loans) : loans'[i] = loans[i]
                /\ LET n == loans'[Len(loans')]
                   IN /\ n.book_id = b
                      /\ n.borrower_id = r
                      /\ Strptime(n.loan_date) = today
                      /\ Strptime(n.due_date) = today + p
                      /\ n.return_date = NoDate
                /\ Len(books') = Len(books)
                /\ books'[b] = [books[b] EXCEPT !.status = "loaned"]
                /\ \A i \in 1..Len(books) : i # b => books'[i] = books[i]
                /\ borrowers' = borrowers)
       /\ (Len(loans') = Len(loans) + 1)
            <=> (\E b \in 1..Len(books) :
                    /\ b \in 1..Len(books')
                    /\ books[b].status = "available"
                    /\ books'[b].status = "loaned")]_vars

\* a loan has just been made while another book and another loan exist
C4_Witness ==
    /\ lastOp.op = "loan_book"
    /\ lastOp.ret = "True"
    /\ Len(books) = 2
    /\ Len(loans) = 2
    /\ loans[2].book_id = lastOp.id
    /\ loans[2].return_date = NoDate
    /\ loans[2].loan_date = Strftime(today)
    /\ loans[1].book_id # lastOp.id

\* C5: get_overdue_loans on day D lists exactly the loans whose due date is
\* before D and whose return date is absent, whatever borrower id the loan
\* was created with.
C5_OverdueExact ==
    OverdueIds(books, borrowers, loans, today) = {l \in 1..Len(loans) :
                    Strptime(loans[l].due_date) < today /\ loans[l].return_date = NoDate}

\* C6: right after a successful return_book(l), get_overdue_loans does not
\* list l, whatever its due date and the day; and a loan whose return date is
\* set is not listed after any further step.
C6_ReturnedNeverOverdue ==
    [][\A l \in 1..(MaxDueLoans + 1) :
          /\ (return_book(l) /\ lastOp'.ret = "True")
                => l \notin OverdueIds(books', borrowers', loans', today')
          /\ (l \in 1..Len(loans) /\ loans[l].return_date # NoDate)
                => l \notin OverdueIds(books', borrowers', loans', today')]_vars

\* a loan to a registered borrower has just been returned after its due date
C6_Witness ==
    /\ lastOp.op = "return_book"
    /\ lastOp.ret = "True"
    /\ lastOp.id \in 1..Len(loans)
    /\ LET l == loans[lastOp.id]
       IN /\ l.borrower_id \in 1..Len(borrowers)
          /\ l.book_id \in 1..Len(books)
          /\ Strptime(l.due_date) < today
          /\ l.return_date = Strftime(today)

\* C7: add_book with an isbn that an existing book already has returns False
\* and leaves books (every row and their number), borrowers and loans
\* unchanged.
C7_DuplicateIsbnRejected ==
    [][\A v \in AddBookCallers, t \in Titles \cup FormTitles, a \in Authors,
          i \in (Isbns \cup FormIsbns) \ {NULL}, y \in Years, g \in Genres :
          (/\ \E k \in 1..Len(books) : books[k].isbn = i
           /\ add_book_from(v, t, a, i, y, g))
          => (/\ lastOp'.ret = "False"
              /\ books' = books
              /\ borrowers' = borrowers
              /\ loans' = loans)]_vars

\* an add_book call with the isbn of an existing book has just failed while
\* the table still had room
C7_Witness ==
    /\ lastOp.op = "add_book"
    /\ lastOp.ret = "False"
    /\ lastOp.text = "ISBN1"
    /\ \E k \in 1..Len(books) : books[k].isbn = "ISBN1"
    /\ Len(books) < MaxBooks

\* C8: adding a book through the Add Book view with title and author filled
\* and the ISBN field left blank succeeds, however many books were added
\* with a blank ISBN before.
C8_BlankIsbnAccepted ==
    (lastOp.op = "AddBookView" /\ lastOp.text = "" /\ lastOp.ret # "warning")
        => lastOp.ret = "True"

\* C9: register_borrower with the email of an existing borrower returns
\* False and leaves the borrowers (and their number), the books and the
\* loans unchanged.
C9_DuplicateEmailRejected ==
    [][\A r \in {x \in Registrations : x[2] # NULL} :
          (/\ \E k \in 1..Len(borrowers) : borrowers[k].email = r[2]
           /\ register_borrower(r[1], r[2], NULL))
          => (/\ lastOp'.ret = "False"
              /\ Len(borrowers') = Len(borrowers)
              /\ borrowers' = borrowers
              /\ books' = books
              /\ loans' = loans)]_vars

\* a registration with the email of the only borrower has just failed
C9_Witness ==
    /\ lastOp.op = "register_borrower"
    /\ lastOp.ret = "False"
    /\ lastOp.text = "ana@x.com"
    /\ Len(borrowers) = 1
    /\ borrowers[1].email = "ana@x.com"

\* C10: return_book with a loan id that no loan has returns False and
\* changes no loan's return date and no book's status.
C10_UnknownLoanChangesNothing ==
    [][\A l \in 1..(MaxLoans + 1) :
          (l \notin 1..Len(loans) /\ return_book(l))
          => (/\ lastOp'.ret = "False"
              /\ loans' = loans
              /\ books' = books
              /\ borrowers' = borrowers)]_vars

\* a return_book call has just failed on an id no loan has, while the book
\* with that id is on loan
C10_Witness ==
    /\ lastOp.op = "return_book"
    /\ lastOp.ret = "False"
    /\ lastOp.id \notin 1..Len(loans)
    /\ lastOp.id \in 1..Len(books)
    /\ books[lastOp.id].status = "loaned"

\* C11: a newly added book is available; a successful loan_book raises the
\* active loan count by one; and a successful return_book of the loan just
\* created, called right after that loan_book, sets the book back to
\* available, stamps the day of the return on the loan and brings the active
\* loan count back to its value before the loan_book.
C11_LoanReturnRoundTrip ==
    [][/\ (add_book("Dune", "Herbert", NULL, 1965, "SciFi") /\ lastOp'.ret = "True")
            => (/\ Len(books') = Len(books) + 1
                /\ books'[Len(books')].status = "available")
       /\ \A b \in 1..(MaxLendBooks + 1), r \in {1}, p \in Periods :
            (loan_book(b, r, p) /\ lastOp'.ret = "True")
            => ActiveLoanCount(loans') = ActiveLoanCount(loans) + 1
       /\ (/\ lastOp.op = "loan_book"
           /\ lastOp.ret = "True"
           /\ return_book(Len(loans)))
            => (/\ lastOp'.ret = "True"
                /\ loans[Len(loans)].book_id = lastOp.id
                /\ books'[lastOp.id].status = "available"
                /\ Strptime(loans'[Len(loans)].return_date) = today
                /\ ActiveLoanCount(loans') = ActiveLoanCount(loans) - 1)]_vars

\* the newest loan has just been returned, its book is available again and
\* another loan is still open
C11_Witness ==
    /\ lastOp.op = "return_book"
    /\ lastOp.ret = "True"
    /\ lastOp.id = Len(loans)
    /\ loans[lastOp.id].return_date = Strftime(today)
    /\ books[loans[lastOp.id].book_id].status = "available"
    /\ OpenLoans(loans[lastOp.id].book_id) = {}
    /\ ActiveLoanCount(loans) >= 1

C13_ReturnedLoanFrozen ==
    [][/\ Len(loans') >= Len(loans)
       /\ \A l \in 1..Len(loans) :
            loans[l].return_date # NoDate => loans'[l] = loans[l]]_vars

\* C14: in every reachable state each loan references an existing book and
\* an existing borrower.
C14_LoanReferencesExist ==
    \A l \in 1..Len(loans) :
        /\ loans[l].book_id \in 1..Len(books)
        /\ loans[l].borrower_id \in 1..Len(borrowers)

\* C16: whenever return_book is applied to a loan whose return date is
\* already set, the loan's book is already available, so the call changes
\* no book's status.
C16_SecondReturnKeepsStatus ==
    [][\A l \in 1..Len(loans) :
         (loans[l].return_date # NoDate /\ return_book(l))
         => (/\ books[loans[l].book_id].status = "available"
             /\ books' = books)]_vars

\* text t contains text q as a substring, letters compared without case
Contains(t, q) ==
    \E i \in 0..(Len(t) - Len(q)) :
        \A j \in 1..Len(q) : Lower(t[i + j]) = Lower(q[j])

\* the books whose column search_by holds a value that contains query
LiteralMatches(query, search_by) ==
    IF search_by \in {"title", "author", "isbn", "genre"}
    THEN {b \in 1..Len(books) :
            /\ FieldValue(books[b], search_by) # NULL
            /\ Contains(Text(FieldValue(books[b], search_by)), Text(query))}
    ELSE {}

\* C15: search_books(query, search_by) changes no table and returns, in
\* ascending id order, exactly the books whose column search_by contains
\* query as a literal substring without regard to case, the characters % and
\* _ of a query included; any other search_by gives the empty list.
C15_SearchLiteralSubstring ==
    [][\A q \in Queries, f \in SearchBys :
         search_books(q, f)
         => (/\ {lastOp'.rows[k] : k \in 1..Len(lastOp'.rows)}
                  = LiteralMatches(q, f)
             /\ \A k \in 1..(Len(lastOp'.rows) - 1) :
                  lastOp'.rows[k] < lastOp'.rows[k + 1]
             /\ books' = books /\ borrowers' = borrowers /\ loans' = loans)]_vars

\* C17: loan_book(book_id, borrower_id, days) returns True exactly when
\* book_id is an existing book whose status is available, whether or not
\* borrower_id is registered and however many open loans that borrower holds.
C17_LoanOutcomeByBookOnly ==
    [][\A b \in 1..(MaxBorrowBooks + 1), r \in BorrowerIds :
         loan_book(b, r, DefaultPeriod)
         => (lastOp'.ret = "True"
             <=> (b \in 1..Len(books) /\ books[b].status = "available"))]_vars

\* a loan has just been granted to an unregistered borrower who already
\* holds another open loan
C17_Witness ==
    /\ lastOp.op = "loan_book"
    /\ lastOp.ret = "True"
    /\ Len(loans) >= 2
    /\ loans[Len(loans)].book_id = lastOp.id
    /\ loans[Len(loans)].borrower_id \notin 1..Len(borrowers)
    /\ \E l \in 1..(Len(loans) - 1) :
         /\ loans[l].borrower_id = loans[Len(loans)].borrower_id
         /\ loans[l].return_date = NoDate

\* C18: when books, borrowers, loans and returns are entered only through
\* the views of one session, every state has a book loaned exactly when it
\* has an open loan, and no book has more than one open loan.
C18_ViewsKeepLendingInvariants ==
    \A b \in 1..Len(books) :
        /\ books[b].status = "loaned" <=> OpenLoans(b) # {}
        /\ Cardinality(OpenLoans(b)) <= 1

\* through the views a book has been lent, returned and lent again
C18_Witness ==
    /\ lastOp.op = "loan_book"
    /\ lastOp.ret = "True"
    /\ Len(loans) >= 2
    /\ loans[Len(loans)].book_id = lastOp.id
    /\ \E l \in 1..(Len(loans) - 1) :
         /\ loans[l].book_id = lastOp.id
         /\ loans[l].return_date # NoDate
         /\ loans[l].borrower_id # loans[Len(loans)].borrower_id
    /\ \A l \in 1..Len(loans) : loans[l].borrower_id \in 1..Len(borrowers)

\* C19: with loan_book split into its check and its writes and no
\* return_book, two calls on two connections that both pass the check for
\* one book before either writes both succeed and leave two open loans on
\* that book; and a book gets a second open loan only that way: a book for
\* which no call passed the check while another call for it was between its
\* check and its writes has at most one open loan.
C19_TwoOpenLoansOnlyByOverlap ==
    \A b \in 1..Len(books) : Cardinality(OpenLoans(b)) >= 2 => b \in overlapped

\* both calls have written: one book has two open loans, one per connection
C19_Witness ==
    /\ overlapped # {}
    /\ \A c \in Connections : pending[c] = <<>>
    /\ lastOp.op = "loan_book"
    /\ lastOp.ret = "True"
    /\ Len(loans) = 2
    /\ loans[1].book_id = loans[2].book_id
    /\ loans[1].borrower_id # loans[2].borrower_id
    /\ loans[1].return_date = NoDate
    /\ loans[2].return_date = NoDate
    /\ books[loans[1].book_id].status = "loaned"

====
